---- MODULE Spec2Model ----
(***************************************************************************)
(* A model of the ARP resolver of src/netif/etharp.c: the ARP cache        *)
(* (arp_table), the aging timer etharp_tmr, the learn path                 *)
(* update_arp_entry reached from etharp_ip_input and etharp_arp_input, and *)
(* the send path etharp_output / etharp_query.                             *)
(*                                                                         *)
(* Every public function is one action: it runs to completion (the stack   *)
(* is single threaded).  The variable `call` records what the last public  *)
(* call was and what it did to the outside world: the frames it passed to  *)
(* netif->linkoutput, in order, how often it called pbuf_free on the       *)
(* caller's buffer, and its return value.                                  *)
(***************************************************************************)
EXTENDS Integers, Sequences, FiniteSets, TLC

VARIABLES arp_table, netif, call

vars == <<arp_table, netif, call>>

----------------------------------------------------------------------------
(* Program constants.                                                      *)

ARP_MAXAGE == 120
ARP_MAXPENDING == 1
ARP_REQUEST == 1
ARP_REPLY == 2
ARP_INSERT_FLAG == 1
\* u8_t ctime: arithmetic on it is modulo 2^8.
U8_MOD == 256
\* lwip/err.h and netif/etharp.h values, as the code uses them by name.
ERR_OK == 0
ERR_MEM == -1
ERR_BUF == -2
ERR_RTE == -9
ERR_IF == -11
ETHTYPE_ARP == 2054
ETHTYPE_IP == 2048

ETHARP_STATE_EMPTY == "EMPTY"
ETHARP_STATE_PENDING == "PENDING"
ETHARP_STATE_STABLE == "STABLE"
ETHARP_STATE_EXPIRED == "EXPIRED"

----------------------------------------------------------------------------
(* Bounds of the model.                                                    *)

\* Number of cache slots (a build-time option of the program).
ARP_TABLE_SIZE == 2
\* Specification Spec runs the timer only while every slot's ctime is below this.
MaxTicks == 1

Slots == 0 .. (ARP_TABLE_SIZE - 1)
\* A NULL pbuf pointer, and the caller's datagrams.
NoBuf == "NULL"
Bufs == {"q1"}

----------------------------------------------------------------------------
(* Addresses: an IPv4 address is its four octets, a hardware address its   *)
(* six.                                                                    *)

IP_ANY == <<0, 0, 0, 0>>
IP_BROADCAST == <<255, 255, 255, 255>>
LocalIp == <<10, 0, 0, 2>>
Netmask24 == <<255, 255, 255, 0>>
GatewayIp == <<10, 0, 0, 1>>
HostA == <<10, 0, 0, 5>>
OffLink == <<203, 0, 113, 9>>
McastIp == <<224, 0, 0, 1>>
\* The directed broadcast of 10.0.0.0/24, and a multicast group whose second
\* octet has its top bit set.
SubnetBcast == <<10, 0, 0, 255>>
McastHigh == <<239, 200, 1, 2>>

ZeroMac == <<0, 0, 0, 0, 0, 0>>
LocalMac == <<2, 0, 0, 0, 0, 2>>
MacA == <<2, 0, 0, 0, 0, 5>>
MacB == <<2, 0, 0, 0, 0, 6>>
ethbroadcast == <<255, 255, 255, 255, 255, 255>>

\* Bitwise and of two octets.
RECURSIVE And8(_, _)
And8(a, b) ==
  IF a = 0 \/ b = 0 THEN 0
  ELSE 2 * And8(a \div 2, b \div 2) + (IF a % 2 = 1 /\ b % 2 = 1 THEN 1 ELSE 0)

IpAnd(a, m) == [k \in 1..4 |-> And8(a[k], m[k])]
IpOrNot(a, m) == [k \in 1..4 |-> a[k] + (255 - m[k]) - And8(a[k], 255 - m[k])]

ip_addr_isany(a) == a = IP_ANY
ip_addr_cmp(a, b) == a = b
ip_addr_maskcmp(a, b, m) == IpAnd(a, m) = IpAnd(b, m)
ip_addr_ismulticast(a) == And8(a[1], 240) = 224
\* limited broadcast, or the directed broadcast of the interface's subnet
ip_addr_isbroadcast(a, nif) ==
  \/ a = IP_BROADCAST
  \/ a = IpOrNot(IpAnd(nif.ip_addr, nif.netmask), nif.netmask)

\* The interface: 10.0.0.2/24 with default gateway 10.0.0.1.
NetifGw ==
  [ip_addr |-> LocalIp, netmask |-> Netmask24, gw |-> GatewayIp, hwaddr |-> LocalMac]
\* The same interface without a default gateway, and an interface that has
\* no address yet.
NetifNoGw == [NetifGw EXCEPT !.gw = IP_ANY]
NetifNoIp == [NetifGw EXCEPT !.ip_addr = IP_ANY, !.netmask = IP_ANY, !.gw = IP_ANY]

----------------------------------------------------------------------------
(* Frames handed to netif->linkoutput.                                     *)

\* Mutant of IpFrame: the destination hardware address is not copied from
\* the resolved address; the frame goes out to the broadcast address.
IpFrameBroadcast(dest, q) ==
  [kind |-> "ip", ethdest |-> ethbroadcast, ethtype |-> ETHTYPE_IP, opcode |-> 0,
   sip |-> IP_ANY, dip |-> IP_ANY, dhw |-> ZeroMac, buf |-> q]

\* The queued or directly sent IP datagram `q`, Ethernet header filled in.
IpFrame(dest, q) ==
  [kind |-> "ip", ethdest |-> dest, ethtype |-> ETHTYPE_IP, opcode |-> 0,
   sip |-> IP_ANY, dip |-> IP_ANY, dhw |-> ZeroMac, buf |-> q]

\* Mutant of RequestFrame: the sender address is left 0.0.0.0.
RequestFrameNoSender(nif, ipaddr) ==
  [kind |-> "arp", ethdest |-> ethbroadcast, ethtype |-> ETHTYPE_ARP,
   opcode |-> ARP_REQUEST, sip |-> IP_ANY, dip |-> ipaddr,
   dhw |-> ZeroMac, buf |-> NoBuf]

\* The ARP request of etharp_query.  The source hardware address fields are
\* left out: etharp_query reads them from `srcaddr`, which it does not
\* declare before use.
RequestFrame(nif, ipaddr) ==
  [kind |-> "arp", ethdest |-> ethbroadcast, ethtype |-> ETHTYPE_ARP,
   opcode |-> ARP_REQUEST, sip |-> nif.ip_addr, dip |-> ipaddr,
   dhw |-> ZeroMac, buf |-> NoBuf]

\* Mutant of ReplyFrame: the Ethernet destination is left as it arrived,
\* the broadcast address of the request.
ReplyFrameBroadcast(nif, ethaddr, sip, shw) ==
  [kind |-> "arp", ethdest |-> ethbroadcast, ethtype |-> ETHTYPE_ARP,
   opcode |-> ARP_REPLY, sip |-> nif.ip_addr, shw |-> ethaddr, dip |-> sip,
   dhw |-> shw, buf |-> NoBuf]

\* The ARP reply etharp_arp_input builds in place from a request whose
\* sender is (sip, shw); ethaddr is the function's argument of that name.
ReplyFrame(nif, ethaddr, sip, shw) ==
  [kind |-> "arp", ethdest |-> shw, ethtype |-> ETHTYPE_ARP,
   opcode |-> ARP_REPLY, sip |-> nif.ip_addr, shw |-> ethaddr, dip |-> sip,
   dhw |-> shw, buf |-> NoBuf]

----------------------------------------------------------------------------
(* The cache.                                                              *)

EmptyEntry ==
  [state |-> ETHARP_STATE_EMPTY, ipaddr |-> IP_ANY, ethaddr |-> ZeroMac,
   p |-> <<>>, ctime |-> 0]

\* etharp_init (arp_table is static: ipaddr and ethaddr start zeroed)
InitTable == [i \in Slots |-> EmptyEntry]

\* Mutant of pbuf_queue: the buffer is attached to an empty queue as well.
pbuf_queueAttach(p, n) == Append(p, n)

\* pbuf_queue(p, n): append n to the queue headed by p.  The head is passed
\* by value: on an empty queue (p == NULL) there is nothing to append to and
\* the caller's head pointer stays NULL.
pbuf_queue(p, n) == IF p = <<>> THEN <<>> ELSE Append(p, n)

\* Mutant of TmrEntry: a stable entry expires only once its age exceeds
\* ARP_MAXAGE.
TmrEntryLate(e) ==
  LET c == (e.ctime + 1) % U8_MOD
      st == IF e.state = ETHARP_STATE_STABLE /\ c > ARP_MAXAGE
              THEN ETHARP_STATE_EXPIRED
            ELSE IF e.state = ETHARP_STATE_PENDING /\ c >= ARP_MAXPENDING
              THEN ETHARP_STATE_EXPIRED
            ELSE e.state
  IN IF st = ETHARP_STATE_EXPIRED
       THEN [e EXCEPT !.ctime = c, !.p = <<>>, !.state = ETHARP_STATE_EMPTY]
       ELSE [e EXCEPT !.ctime = c]

\* One slot's step of the loop of etharp_tmr.
TmrEntry(e) ==
  LET c == (e.ctime + 1) % U8_MOD
      st == IF e.state = ETHARP_STATE_STABLE /\ c >= ARP_MAXAGE
              THEN ETHARP_STATE_EXPIRED
            ELSE IF e.state = ETHARP_STATE_PENDING /\ c >= ARP_MAXPENDING
              THEN ETHARP_STATE_EXPIRED
            ELSE e.state
  IN IF st = ETHARP_STATE_EXPIRED
       THEN [e EXCEPT !.ctime = c, !.p = <<>>, !.state = ETHARP_STATE_EMPTY]
       ELSE [e EXCEPT !.ctime = c]

\* The scan of find_arp_entry for the oldest stable entry, from slot i on,
\* with the candidate j and its age maxtime so far.
RECURSIVE OldestStable(_, _, _, _)
OldestStable(t, i, j, maxtime) ==
  IF i = ARP_TABLE_SIZE THEN j
  ELSE IF t[i].state = ETHARP_STATE_STABLE /\ t[i].ctime >= maxtime
    THEN OldestStable(t, i + 1, i, t[i].ctime)
    ELSE OldestStable(t, i + 1, j, maxtime)

\* Mutant of Min: the scan keeps the last slot it meets, not the first.
MaxSlot(S) == CHOOSE x \in S : \A y \in S : x >= y

\* The first slot a scan in index order meets among S.
Min(S) == CHOOSE x \in S : \A y \in S : x <= y

\* Mutant of find_arp_entry: with no empty slot, the last slot is recycled
\* whatever its state, pending included.
find_arp_entryAnyState(t) ==
  LET empties == {i \in Slots : t[i].state = ETHARP_STATE_EMPTY}
      j == ARP_TABLE_SIZE - 1
  IN IF empties # {} THEN [i |-> Min(empties), t |-> t]
     ELSE [i |-> j,
           t |-> [t EXCEPT ![j] = [@ EXCEPT !.p = <<>>,
                                            !.state = ETHARP_STATE_EMPTY]]]

\* find_arp_entry: [i |-> the slot or ERR_MEM, t |-> the table afterwards]
find_arp_entry(t) ==
  LET empties == {i \in Slots : t[i].state = ETHARP_STATE_EMPTY}
      j == OldestStable(t, 0, ARP_TABLE_SIZE, 0)
  IN IF empties # {} THEN [i |-> Min(empties), t |-> t]
     ELSE IF j = ARP_TABLE_SIZE THEN [i |-> ERR_MEM, t |-> t]
     ELSE [i |-> j,
           t |-> [t EXCEPT ![j] = [@ EXCEPT !.p = <<>>,
                                            !.state = ETHARP_STATE_EMPTY]]]

\* Mutant of EntryMatches: only stable entries are compared.
EntryMatchesStableOnly(e, ipaddr) ==
  e.state = ETHARP_STATE_STABLE /\ ip_addr_cmp(ipaddr, e.ipaddr)

\* The test both lookups apply to a slot: in use and holding this address.
EntryMatches(e, ipaddr) ==
  e.state # ETHARP_STATE_EMPTY /\ ip_addr_cmp(ipaddr, e.ipaddr)

\* The first slot matching ipaddr, ARP_TABLE_SIZE when there is none.
LookupEntry(t, ipaddr) ==
  LET m == {i \in Slots : EntryMatches(t[i], ipaddr)}
  IN IF m = {} THEN ARP_TABLE_SIZE ELSE Min(m)

\* The frames the flush loop of update_arp_entry sends for queue p.
FlushFrames(p, ethaddr) == [k \in 1..Len(p) |-> IpFrame(ethaddr, p[k])]

\* The update of a matching entry in update_arp_entry.
RefreshEntry(e, ethaddr) ==
  [e EXCEPT !.state = ETHARP_STATE_STABLE, !.ethaddr = ethaddr,
            !.ctime = 0, !.p = <<>>]

\* The entry update_arp_entry writes into the slot find_arp_entry gave it.
InsertedEntry(e, ipaddr, ethaddr) ==
  [e EXCEPT !.ipaddr = ipaddr, !.ethaddr = ethaddr, !.ctime = 0,
            !.state = ETHARP_STATE_STABLE, !.p = <<>>]

\* update_arp_entry: the table afterwards, the frames sent, what happened
\* (ev) and to which slot (hit: slot and its state before the call).
update_arp_entry(t, ipaddr, ethaddr, flags) ==
  LET i == LookupEntry(t, ipaddr)
      f == find_arp_entry(t)
      none == [t |-> t, sent |-> <<>>, ev |-> "none", hit |-> {}]
  IN IF ipaddr = IP_ANY THEN none
     ELSE IF i # ARP_TABLE_SIZE
       THEN [t |-> [t EXCEPT ![i] = RefreshEntry(@, ethaddr)],
             sent |-> FlushFrames(t[i].p, ethaddr),
             ev |-> "updated",
             hit |-> {[i |-> i, was |-> t[i].state]}]
     ELSE IF flags # ARP_INSERT_FLAG THEN none
     ELSE IF f.i = ERR_MEM THEN [none EXCEPT !.ev = "nomem"]
     ELSE [t |-> [f.t EXCEPT ![f.i] = InsertedEntry(@, ipaddr, ethaddr)],
           sent |-> <<>>,
           ev |-> "inserted",
           hit |-> {[i |-> f.i, was |-> t[f.i].state]}]

\* Mutant of CreatedEntry: the queue of the new entry is not set to NULL but
\* to a buffer nobody handed over.
CreatedEntryQueued(e, ipaddr) ==
  [e EXCEPT !.state = ETHARP_STATE_PENDING, !.ipaddr = ipaddr,
            !.p = <<CHOOSE b \in Bufs : TRUE>>]

\* The entry etharp_query creates in the slot find_arp_entry gave it.
CreatedEntry(e, ipaddr) ==
  [e EXCEPT !.state = ETHARP_STATE_PENDING, !.ipaddr = ipaddr, !.p = <<>>]

\* etharp_query.  env is what the collaborators do during the call:
\* env.allocOk: pbuf_alloc of the request succeeds; env.loReq, env.loPkt: what
\* linkoutput returns for the request and for the datagram; env.takeOk:
\* pbuf_take succeeds.
etharp_query(t, nif, ipaddr, q, env) ==
  LET reqSent == IF env.allocOk THEN <<RequestFrame(nif, ipaddr)>> ELSE <<>>
      res1 == IF env.allocOk THEN env.loReq ELSE ERR_MEM
      found == LookupEntry(t, ipaddr)
      f == find_arp_entry(t)
      i == IF found # ARP_TABLE_SIZE THEN found ELSE f.i
      t1 == IF found # ARP_TABLE_SIZE THEN t
            ELSE [f.t EXCEPT ![f.i] = CreatedEntry(@, ipaddr)]
      ev == IF found = ARP_TABLE_SIZE THEN "created"
            ELSE IF t[found].state = ETHARP_STATE_STABLE THEN "stable"
            ELSE "pending"
      hit == {[i |-> i, was |-> t[i].state]}
  IN IF found = ARP_TABLE_SIZE /\ f.i = ERR_MEM
       THEN [t |-> t, sent |-> reqSent, result |-> ERR_MEM, ev |-> "nomem",
             hit |-> {}]
     ELSE IF q = NoBuf
       THEN [t |-> t1, sent |-> reqSent, result |-> res1, ev |-> ev, hit |-> hit]
     ELSE IF t1[i].state = ETHARP_STATE_STABLE
       THEN [t |-> t1,
             sent |-> Append(reqSent, IpFrame(t1[i].ethaddr, q)),
             result |-> env.loPkt, ev |-> ev, hit |-> hit]
     ELSE IF env.takeOk
       THEN [t |-> [t1 EXCEPT ![i].p = pbuf_queue(t1[i].p, q)],
             sent |-> reqSent, result |-> res1, ev |-> ev, hit |-> hit]
     ELSE [t |-> t1, sent |-> reqSent, result |-> ERR_MEM, ev |-> ev, hit |-> hit]

\* Mutant of McastMac: the second octet is copied without the mask 0x7f.
McastMacNoMask(ipaddr) == <<1, 0, 94, ipaddr[2], ipaddr[3], ipaddr[4]>>

\* The hardware address etharp_output computes for a multicast destination.
McastMac(ipaddr) == <<1, 0, 94, And8(ipaddr[2], 127), ipaddr[3], ipaddr[4]>>

----------------------------------------------------------------------------
(* The record of a public call.                                            *)

\* What the collaborators (pbuf_header, pbuf_alloc, linkoutput, pbuf_take)
\* do during one call when nothing fails.
EnvOk ==
  [hdrOk |-> TRUE, allocOk |-> TRUE, loReq |-> ERR_OK, loPkt |-> ERR_OK,
   takeOk |-> TRUE]

\* op: the public function; ipaddr, q, env: its arguments and what the
\* collaborators did; sent: the frames passed to linkoutput, in order; freed:
\* the number of pbuf_free calls on the caller's buffer; result: the return
\* value; ev: the path taken; hit: the slots acted on, each with its state
\* before the call.
Call(op, ipaddr, q, env, sent, freed, result, ev, hit) ==
  [op |-> op, ipaddr |-> ipaddr, q |-> q, env |-> env, sent |-> sent,
   freed |-> freed, result |-> result, ev |-> ev, hit |-> hit]

Init ==
  /\ arp_table = InitTable
  /\ netif = NetifGw
  /\ call = Call("init", IP_ANY, NoBuf, EnvOk, <<>>, 0, ERR_OK, "none", {})

\* etharp_tmr
Tmr ==
  /\ arp_table' = [i \in Slots |-> TmrEntry(arp_table[i])]
  /\ call' = Call("tmr", IP_ANY, NoBuf, EnvOk, <<>>, 0, ERR_OK, "none",
                  {[i |-> i, was |-> arp_table[i].state] : i \in
                     {k \in Slots : arp_table[k].state # ETHARP_STATE_EMPTY
                                    /\ TmrEntry(arp_table[k]).state = ETHARP_STATE_EMPTY}})
  /\ UNCHANGED netif

\* etharp_ip_input for a packet with IP source src and Ethernet source mac
IpInput(src, mac) ==
  LET u == update_arp_entry(arp_table, src, mac, ARP_INSERT_FLAG)
  IN /\ IF ip_addr_maskcmp(src, netif.ip_addr, netif.netmask)
          THEN /\ arp_table' = u.t
               /\ call' = Call("ip_input", src, NoBuf, EnvOk, u.sent, 0, ERR_OK, u.ev, u.hit)
          ELSE /\ arp_table' = arp_table
               /\ call' = Call("ip_input", src, NoBuf, EnvOk, <<>>, 0, ERR_OK, "offlink", {})
     /\ UNCHANGED netif

\* An inbound ARP packet: short (p->tot_len below the size of an ARP
\* header), and the header fields hwlen, protolen, opcode, sender and target
\* addresses.
ArpPkt(short, hwlen, protolen, opcode, sip, shw, dip) ==
  [opcode |-> opcode, sip |-> sip, dip |-> dip, shw |-> shw, short |-> short,
   hwlen |-> hwlen, protolen |-> protolen]

\* The record of an etharp_arp_input call: that of Call, and the packet.
ArpCall(pkt, sent, ev, hit) ==
  [op |-> "arp_input", ipaddr |-> pkt.sip, q |-> NoBuf, env |-> EnvOk,
   sent |-> sent, freed |-> 1, result |-> ERR_OK, ev |-> ev, hit |-> hit,
   pkt |-> pkt]

\* Mutant of for_us: the test for an unconfigured interface is left out.
for_usAnyNetif(nif, dipaddr) == ip_addr_cmp(dipaddr, nif.ip_addr)

\* etharp_arp_input's for_us: the packet's target is this interface's address.
for_us(nif, dipaddr) ==
  IF nif.ip_addr = IP_ANY THEN FALSE ELSE ip_addr_cmp(dipaddr, nif.ip_addr)

\* etharp_arp_input(netif, ethaddr, p) for the ARP packet pkt, called as its
\* header says with ethaddr the Ethernet address of netif.
ArpInput(pkt) ==
  LET u == update_arp_entry(arp_table, pkt.sip, pkt.shw,
                            IF for_us(netif, pkt.dip) THEN ARP_INSERT_FLAG ELSE 0)
      reply == IF pkt.opcode = ARP_REQUEST /\ for_us(netif, pkt.dip)
                 THEN <<ReplyFrame(netif, netif.hwaddr, pkt.sip, pkt.shw)>>
                 ELSE <<>>
  IN /\ IF pkt.short
          THEN /\ arp_table' = arp_table
               /\ call' = ArpCall(pkt, <<>>, "short", {})
          ELSE /\ arp_table' = u.t
               /\ call' = ArpCall(pkt, u.sent \o reply, u.ev, u.hit)
     /\ UNCHANGED netif

\* etharp_query as a public call
Query(ipaddr, q, env) ==
  LET r == etharp_query(arp_table, netif, ipaddr, q, env)
  IN /\ arp_table' = r.t
     /\ call' = Call("query", ipaddr, q, env, r.sent, 0, r.result, r.ev, r.hit)
     /\ UNCHANGED netif

\* Mutant of HasGateway: the interface is taken to have a gateway always.
HasGatewayAlways(nif) == TRUE

\* etharp_output's test for a default gateway.
HasGateway(nif) == nif.gw # IP_ANY

\* Mutant of NextHop: the destination is resolved itself, on-link or not.
NextHopDirect(nif, ipaddr) == ipaddr

\* The address etharp_output resolves for a unicast destination: the
\* destination on the interface's network, the default gateway outside it.
NextHop(nif, ipaddr) ==
  IF ~ip_addr_maskcmp(ipaddr, nif.ip_addr, nif.netmask) THEN nif.gw ELSE ipaddr

\* etharp_output.  env.hdrOk: pbuf_header makes room for the Ethernet header.
Output(ipaddr, q, env) ==
  LET offlink == ~ip_addr_maskcmp(ipaddr, netif.ip_addr, netif.netmask)
      key == NextHop(netif, ipaddr)
      r == etharp_query(arp_table, netif, key, q, env)
  IN /\ IF ~env.hdrOk
          THEN /\ arp_table' = arp_table
               /\ call' = Call("output", ipaddr, q, env, <<>>, 1, ERR_BUF, "nohdr", {})
        ELSE IF ip_addr_isany(ipaddr) \/ ip_addr_isbroadcast(ipaddr, netif)
          THEN /\ arp_table' = arp_table
               /\ call' = Call("output", ipaddr, q, env, <<IpFrame(ethbroadcast, q)>>,
                               1, env.loPkt, "broadcast", {})
        ELSE IF ip_addr_ismulticast(ipaddr)
          THEN /\ arp_table' = arp_table
               /\ call' = Call("output", ipaddr, q, env, <<IpFrame(McastMac(ipaddr), q)>>,
                               1, env.loPkt, "multicast", {})
        ELSE IF offlink /\ ~HasGateway(netif)
          THEN /\ arp_table' = arp_table
               /\ call' = Call("output", ipaddr, q, env, <<>>, 1, ERR_RTE, "noroute", {})
        ELSE /\ arp_table' = r.t
             /\ call' = Call("output", ipaddr, q, env, r.sent, 1, r.result, r.ev, r.hit)
     /\ UNCHANGED netif

----------------------------------------------------------------------------------------------------------------------------------------------------
(* Inputs and specifications.                                              *)

\* What the collaborators do during one call: everything succeeds, or one
\* of them fails.
QueryEnvs ==
  { EnvOk, [EnvOk EXCEPT !.allocOk = FALSE], [EnvOk EXCEPT !.loReq = ERR_IF],
    [EnvOk EXCEPT !.loPkt = ERR_IF], [EnvOk EXCEPT !.takeOk = FALSE] }
OutputEnvs == QueryEnvs \cup { [EnvOk EXCEPT !.hdrOk = FALSE] }

OutputDests == {HostA, OffLink, IP_BROADCAST, McastIp}
QueryTargets == {IP_ANY, HostA}
\* The (IP, hardware) address pairs inbound packets carry as their sender.
Senders ==
  { <<HostA, MacA>>, <<HostA, MacB>>, <<GatewayIp, MacB>>, <<IP_ANY, MacA>> }
TargetIps == {LocalIp, HostA}
Opcodes == {ARP_REQUEST, ARP_REPLY, 3}

TmrStep == (\A i \in Slots : arp_table[i].ctime < MaxTicks) /\ Tmr
IpInputStep == \E s \in Senders : IpInput(s[1], s[2])
\* The lengths of a hardware and of an IPv4 address, as a well-formed
\* Ethernet/IPv4 ARP header carries them, and the other values tried.
WellFormedLens == <<6, 4>>
BadLens == {<<8, 4>>, <<6, 16>>}

\* A packet with a complete, well-formed header.
GoodPkt(opcode, sip, shw, dip) ==
  ArpPkt(FALSE, WellFormedLens[1], WellFormedLens[2], opcode, sip, shw, dip)
\* The same packet cut short.
ShortPkt(opcode, sip, shw, dip) ==
  ArpPkt(TRUE, WellFormedLens[1], WellFormedLens[2], opcode, sip, shw, dip)

\* Specification Spec takes every sender's replies and one sender's other
\* packets; SpecIfaces below takes the packets in all their variety.
ArpInputStep ==
  \/ ArpInput(ShortPkt(ARP_REQUEST, HostA, MacA, LocalIp))
  \/ \E opcode \in Opcodes \ {ARP_REPLY} :
       ArpInput(GoodPkt(opcode, HostA, MacA, LocalIp))
  \/ \E s \in Senders, dip \in TargetIps :
       ArpInput(GoodPkt(ARP_REPLY, s[1], s[2], dip))
QueryStep ==
  \E ipaddr \in QueryTargets, q \in Bufs \cup {NoBuf}, env \in QueryEnvs :
    Query(ipaddr, q, env)
\* A broadcast or multicast destination involves pbuf_header and one
\* linkoutput only.
OutputStep ==
  \E ipaddr \in OutputDests, q \in Bufs, env \in OutputEnvs :
    /\ (ip_addr_isbroadcast(ipaddr, netif) \/ ip_addr_ismulticast(ipaddr))
       => (env.allocOk /\ env.loReq = ERR_OK /\ env.takeOk)
    /\ Output(ipaddr, q, env)

Next == TmrStep \/ IpInputStep \/ ArpInputStep \/ QueryStep \/ OutputStep

Spec == Init /\ [][Next]_vars

\* The timer run without bound, against one peer that is learnt from its IP
\* packets and queried for: the ages 0..255 of a slot all occur.
NextAging ==
  \/ Tmr
  \/ IpInput(HostA, MacA)
  \/ Query(HostA, NoBuf, EnvOk)

SpecAging == Init /\ [][NextAging]_vars

\* The interface in each of its configurations (with and without a gateway,
\* without an address), against one peer and the gateway.
Netifs == {NetifGw, NetifNoGw, NetifNoIp}

InitIfaces ==
  /\ arp_table = InitTable
  /\ netif \in Netifs
  /\ call = Call("init", IP_ANY, NoBuf, EnvOk, <<>>, 0, ERR_OK, "none", {})

IfaceSenders == { <<HostA, MacA>>, <<HostA, MacB>>, <<GatewayIp, MacB>> }
IfaceTargetIps == {LocalIp, HostA, IP_ANY}
IfaceEnvs == { EnvOk, [EnvOk EXCEPT !.hdrOk = FALSE] }
IfaceQueryEnvs == { EnvOk, [EnvOk EXCEPT !.allocOk = FALSE] }

NextIfaces ==
  \/ TmrStep
  \/ IpInput(HostA, MacA)
  \/ \E opcode \in Opcodes, s \in IfaceSenders, dip \in IfaceTargetIps :
       ArpInput(GoodPkt(opcode, s[1], s[2], dip))
  \/ \E s \in IfaceSenders :
       \/ ArpInput(ShortPkt(ARP_REQUEST, s[1], s[2], LocalIp))
       \/ \E l \in BadLens :
            ArpInput(ArpPkt(FALSE, l[1], l[2], ARP_REQUEST, s[1], s[2], LocalIp))
  \/ \E q \in Bufs \cup {NoBuf}, env \in IfaceQueryEnvs : Query(HostA, q, env)
  \/ Query(LocalIp, NoBuf, EnvOk)
  \/ \E ipaddr \in {HostA, OffLink}, q \in Bufs, env \in IfaceEnvs :
       Output(ipaddr, q, env)

SpecIfaces == InitIfaces /\ [][NextIfaces]_vars

\* Output to every kind of broadcast and multicast destination, against a
\* cache that holds empty, pending and stable entries.
BcastDests == {IP_ANY, IP_BROADCAST, SubnetBcast, McastIp, McastHigh}
BcastEnvs ==
  { EnvOk, [EnvOk EXCEPT !.loPkt = ERR_IF], [EnvOk EXCEPT !.hdrOk = FALSE] }

NextBcast ==
  \/ TmrStep
  \/ \E s \in Senders : IpInput(s[1], s[2])
  \/ \E ipaddr \in QueryTargets, q \in Bufs \cup {NoBuf} : Query(ipaddr, q, EnvOk)
  \/ \E ipaddr \in BcastDests \cup {HostA}, q \in Bufs, env \in BcastEnvs :
       Output(ipaddr, q, env)

SpecBcast == Init /\ [][NextBcast]_vars

\* find_arp_entry applied once to each cache content of a family: every
\* slot empty, pending or stable at one of a few ages, the in-use slots
\* holding different addresses and, as in every cache the calls above
\* produce, no queued buffer.
FindAges == {0, 1, 119}
FindStates == {ETHARP_STATE_EMPTY, ETHARP_STATE_PENDING, ETHARP_STATE_STABLE}
FindEntry(i, st, age) ==
  [state |-> st, ipaddr |-> <<10, 0, 0, 10 + i>>,
   ethaddr |-> IF st = ETHARP_STATE_STABLE THEN MacA ELSE ZeroMac,
   p |-> <<>>, ctime |-> age]

InitFind ==
  /\ \E st \in [Slots -> FindStates], age \in [Slots -> FindAges] :
       arp_table = [i \in Slots |-> FindEntry(i, st[i], age[i])]
  /\ netif = NetifGw
  /\ call = Call("init", IP_ANY, NoBuf, EnvOk, <<>>, 0, ERR_OK, "none", {})

\* One call of find_arp_entry; call.result is what it returns.
FindSlot ==
  LET f == find_arp_entry(arp_table)
  IN /\ call.op = "init"
     /\ arp_table' = f.t
     /\ call' = Call("find_arp_entry", IP_ANY, NoBuf, EnvOk, <<>>, 0, f.i, "none", {})
     /\ UNCHANGED netif

SpecFind == InitFind /\ [][FindSlot]_vars

----------------------------------------------------------------------------
(* Vocabulary of the properties.                                           *)

\* a unicast address on the interface's own network
IsUnicastOnLink(a) ==
  /\ ~ip_addr_isany(a)
  /\ ~ip_addr_isbroadcast(a, netif)
  /\ ~ip_addr_ismulticast(a)
  /\ ip_addr_maskcmp(a, netif.ip_addr, netif.netmask)

IsLearnCall(c) == c.op \in {"ip_input", "arp_input"}
IsSendCall(c) == c.op \in {"output", "query"}

\* f is a broadcast ARP request for target
IsRequestFor(f, target) ==
  /\ f.kind = "arp" /\ f.ethtype = ETHTYPE_ARP /\ f.ethdest = ethbroadcast
  /\ f.opcode = ARP_REQUEST /\ f.dip = target

\* f is the datagram q framed for hardware address mac
IsDatagramTo(f, q, mac) ==
  /\ f.kind = "ip" /\ f.ethtype = ETHTYPE_IP /\ f.ethdest = mac /\ f.buf = q

IsIpFrame(f) == f.kind = "ip"
IsArpFrame(f) == f.kind = "arp"

\* c is an etharp_arp_input call for a packet with a complete header
IsArpInputOf(c) == c.op = "arp_input" /\ ~c.pkt.short

\* the slot holds an entry for address a
HoldsIp(e, a) == e.state # ETHARP_STATE_EMPTY /\ e.ipaddr = a

\* a unicast address outside the interface's own network
IsUnicastOffLink(a) ==
  /\ ~ip_addr_isany(a)
  /\ ~ip_addr_isbroadcast(a, netif)
  /\ ~ip_addr_ismulticast(a)
  /\ ~ip_addr_maskcmp(a, netif.ip_addr, netif.netmask)

----------------------------------------------------------------------------
(* C1: when output or query is given a datagram for a unicast on-link      *)
(* address that is not in the cache, and a slot is free, then on return    *)
(* exactly one broadcast ARP request for that address has been sent and    *)
(* the cache holds a pending entry for the address whose queue is exactly  *)
(* that datagram.  Stated for the calls in which no collaborator fails.    *)
C1_RequestAndQueue ==
  (/\ IsSendCall(call) /\ call.q # NoBuf /\ call.env = EnvOk
   /\ call.ev = "created" /\ IsUnicastOnLink(call.ipaddr))
  => /\ Len(call.sent) = 1
     /\ IsRequestFor(call.sent[1], call.ipaddr)
     /\ \E i \in Slots :
          /\ arp_table[i].state = ETHARP_STATE_PENDING
          /\ arp_table[i].ipaddr = call.ipaddr
          /\ arp_table[i].p = <<call.q>>

(* C2: when a learn event arrives for an address whose entry is pending    *)
(* and was given a datagram by the preceding output or query call, then    *)
(* when the inbound call returns the entry is stable, its queue is empty   *)
(* and the datagram has been passed to linkoutput exactly once, addressed  *)
(* to the learnt hardware address.                                         *)
C2_FlushOnLearn ==
  [][\A i \in Slots :
       (/\ IsSendCall(call) /\ call.q # NoBuf /\ call.env = EnvOk
        /\ call.ev \in {"created", "pending"}
        /\ \E r \in call.hit : r.i = i
        /\ arp_table[i].state = ETHARP_STATE_PENDING
        /\ IsLearnCall(call') /\ call'.ev = "updated"
        /\ \E r \in call'.hit : r.i = i)
       => /\ arp_table'[i].state = ETHARP_STATE_STABLE
          /\ arp_table'[i].p = <<>>
          /\ LET ipframes == SelectSeq(call'.sent, IsIpFrame)
             IN /\ Len(ipframes) = 1
                /\ IsDatagramTo(ipframes[1], call.q, arp_table'[i].ethaddr)]_vars

C4_ReleaseOnlyOnError ==
  call.op = "output"
  => call.freed = (IF call.ev \in {"nohdr", "noroute"} THEN 1 ELSE 0)

(* C5: after any sequence of public calls, at most one non-empty cache     *)
(* entry holds any given non-zero IPv4 address.                            *)
C5_UniqueIp ==
  \A i, j \in Slots :
    (/\ i # j
     /\ arp_table[i].state # ETHARP_STATE_EMPTY
     /\ arp_table[j].state # ETHARP_STATE_EMPTY
     /\ arp_table[i].ipaddr # IP_ANY)
    => arp_table[i].ipaddr # arp_table[j].ipaddr

\* a learn for an address that was pending, with another entry in use: the
\* entry is found and made stable, and no second one is inserted.
C5_Witness ==
  /\ IsLearnCall(call) /\ call.ev = "updated"
  /\ \E r \in call.hit :
       /\ r.was = ETHARP_STATE_PENDING
       /\ arp_table[r.i].ipaddr # IP_ANY
       /\ \E j \in Slots \ {r.i} : arp_table[j].state # ETHARP_STATE_EMPTY

(* C6: after any public call, a slot whose state is empty has ip 0.0.0.0   *)
(* and an empty queue; in particular a slot emptied by the timer or by     *)
(* replacement has its ip reset to 0.0.0.0.                                *)
C6_EmptyMeansZeroIp ==
  \A i \in Slots :
    arp_table[i].state = ETHARP_STATE_EMPTY
    => (arp_table[i].ipaddr = IP_ANY /\ arp_table[i].p = <<>>)

(* C7: after any sequence of public calls, no non-empty cache entry has    *)
(* ip 0.0.0.0.                                                             *)
C7_NoEntryForAny ==
  \A i \in Slots :
    arp_table[i].state # ETHARP_STATE_EMPTY => arp_table[i].ipaddr # IP_ANY

(* C8: whenever an entry is created (pending by query, stable by a learn   *)
(* with insert) or its hardware address is updated, its age is 0 when the  *)
(* call returns.  Stated for the non-zero addresses.                       *)
C8_AgeZeroOnCreate ==
  (call.ev \in {"created", "inserted", "updated"} /\ call.ipaddr # IP_ANY)
  => \A r \in call.hit : arp_table[r.i].ctime = 0

(* C9: a stable entry whose age reaches ARP_MAXAGE during a timer call is  *)
(* empty when that call returns, and between public calls every stable     *)
(* entry has an age below ARP_MAXAGE.                                      *)
C9_StableExpiry ==
  /\ [](\A i \in Slots :
          arp_table[i].state = ETHARP_STATE_STABLE
          => arp_table[i].ctime < ARP_MAXAGE)
  /\ [][\A i \in Slots :
          (/\ call'.op = "tmr"
           /\ arp_table[i].state = ETHARP_STATE_STABLE
           /\ arp_table[i].ctime + 1 >= ARP_MAXAGE)
          => arp_table'[i].state = ETHARP_STATE_EMPTY]_vars

\* the timer has just removed a stable entry, at age ARP_MAXAGE
C9_Witness ==
  /\ call.op = "tmr"
  /\ \E r \in call.hit :
       /\ r.was = ETHARP_STATE_STABLE
       /\ arp_table[r.i].state = ETHARP_STATE_EMPTY
       /\ arp_table[r.i].ctime = ARP_MAXAGE

(* C10: an entry that is pending with age >= ARP_MAXPENDING when the timer *)
(* is called is empty when that timer call returns.                        *)
C10_PendingExpiry ==
  [][\A i \in Slots :
       (/\ call'.op = "tmr"
        /\ arp_table[i].state = ETHARP_STATE_PENDING
        /\ arp_table[i].ctime >= ARP_MAXPENDING)
       => arp_table'[i].state = ETHARP_STATE_EMPTY]_vars

(* C11: the insertion of a new entry (by a learn with insert or by query)  *)
(* leaves every pending entry for another address as it was, and a pending *)
(* entry leaves the pending state only through a learn for its own address *)
(* (to stable) or through the timer (to empty).                            *)
C11_PendingNotEvicted ==
  [][\A i \in Slots :
       arp_table[i].state = ETHARP_STATE_PENDING
       => /\ (/\ call'.ev \in {"created", "inserted"}
               /\ \E r \in call'.hit :
                    arp_table'[r.i].ipaddr # arp_table[i].ipaddr)
              => arp_table'[i] = arp_table[i]
          /\ arp_table'[i].state # ETHARP_STATE_PENDING
              => \/ /\ IsLearnCall(call')
                     /\ call'.ipaddr = arp_table[i].ipaddr
                     /\ arp_table'[i].state = ETHARP_STATE_STABLE
                     /\ arp_table'[i].ipaddr = arp_table[i].ipaddr
                 \/ /\ call'.op = "tmr"
                     /\ arp_table'[i].state = ETHARP_STATE_EMPTY]_vars

\* an insertion has just recycled a stable entry while another slot holds a
\* pending entry for a different address
C11_Witness ==
  /\ call.ev \in {"created", "inserted"}
  /\ \E r \in call.hit :
       /\ r.was = ETHARP_STATE_STABLE
       /\ \E j \in Slots \ {r.i} :
            /\ arp_table[j].state = ETHARP_STATE_PENDING
            /\ arp_table[j].ipaddr # arp_table[r.i].ipaddr

(* C12: a query for an address that matches no cache entry, made while     *)
(* every slot is pending, returns ERR_MEM, makes at most one linkoutput    *)
(* call (the ARP request, when its buffer could be allocated), neither     *)
(* queues nor sends the caller's buffer and leaves the cache unchanged.    *)
C12_QueryNoMem ==
  [][(/\ call'.op = "query"
      /\ \A i \in Slots : /\ arp_table[i].state = ETHARP_STATE_PENDING
                           /\ arp_table[i].ipaddr # call'.ipaddr)
     => /\ call'.result = ERR_MEM
        /\ Len(call'.sent) = (IF call'.env.allocOk THEN 1 ELSE 0)
        /\ \A k \in 1..Len(call'.sent) : IsRequestFor(call'.sent[k], call'.ipaddr)
        /\ arp_table' = arp_table]_vars

\* a query with a datagram has just failed for want of a slot, after sending
\* its request, with every slot pending for another address
C12_Witness ==
  /\ call.op = "query" /\ call.q # NoBuf /\ call.result = ERR_MEM
  /\ call.env = EnvOk /\ Len(call.sent) = 1
  /\ \A i \in Slots : /\ arp_table[i].state = ETHARP_STATE_PENDING
                       /\ arp_table[i].ipaddr # call.ipaddr
                       /\ arp_table[i].p = <<>>

(* C13: whatever the cache holds, output to a unicast destination outside  *)
(* the network of an interface whose gateway is 0.0.0.0 returns ERR_RTE,   *)
(* releases the buffer exactly once, makes no linkoutput call (not even an *)
(* ARP request) and leaves the cache unchanged.  Stated for the calls in   *)
(* which pbuf_header made room for the Ethernet header.                    *)
C13_NoRoute ==
  [][(/\ call'.op = "output" /\ call'.env.hdrOk
      /\ IsUnicastOffLink(call'.ipaddr) /\ netif.gw = IP_ANY)
     => /\ call'.result = ERR_RTE
        /\ call'.freed = 1
        /\ call'.sent = <<>>
        /\ arp_table' = arp_table]_vars

\* output has just refused an off-link destination for want of a gateway,
\* with a stable entry in the cache
C13_Witness ==
  /\ call.op = "output" /\ call.env.hdrOk /\ call.result = ERR_RTE
  /\ IsUnicastOffLink(call.ipaddr) /\ netif.gw = IP_ANY
  /\ call.freed = 1 /\ call.sent = <<>>
  /\ \E i \in Slots : arp_table[i].state = ETHARP_STATE_STABLE

(* C14: output to a unicast destination outside the network, on an         *)
(* interface with a non-zero gateway, resolves the gateway: every ARP      *)
(* request of the call asks for the gateway address, every cache entry the *)
(* call creates, changes or uses is keyed on the gateway address, and no   *)
(* entry keyed on the destination comes into being.  Stated for the calls  *)
(* in which pbuf_header made room for the Ethernet header.                 *)
C14_ResolveGateway ==
  [][(/\ call'.op = "output" /\ call'.env.hdrOk
      /\ IsUnicastOffLink(call'.ipaddr) /\ netif.gw # IP_ANY)
     => /\ \A k \in 1..Len(call'.sent) :
             call'.sent[k].kind = "arp" => IsRequestFor(call'.sent[k], netif.gw)
        /\ \A r \in call'.hit : arp_table'[r.i].ipaddr = netif.gw
        /\ \A i \in Slots :
             /\ arp_table'[i] # arp_table[i] => arp_table'[i].ipaddr = netif.gw
             /\ (/\ arp_table'[i].state # ETHARP_STATE_EMPTY
                 /\ arp_table'[i].ipaddr = call'.ipaddr)
                => (/\ arp_table[i].state # ETHARP_STATE_EMPTY
                    /\ arp_table[i].ipaddr = call'.ipaddr)]_vars

\* output to an off-link destination has just sent a request for the
\* gateway and created the pending entry for the gateway
C14_Witness ==
  /\ call.op = "output" /\ call.env = EnvOk /\ call.ev = "created"
  /\ IsUnicastOffLink(call.ipaddr) /\ netif.gw # IP_ANY
  /\ Len(call.sent) = 1 /\ IsRequestFor(call.sent[1], netif.gw)
  /\ \E r \in call.hit :
       /\ arp_table[r.i].state = ETHARP_STATE_PENDING
       /\ arp_table[r.i].ipaddr = netif.gw

(* C15: for an inbound ARP request whose target address is the             *)
(* interface's address (not 0.0.0.0) and whose sender address is not       *)
(* 0.0.0.0, etharp_arp_input passes exactly one ARP frame to linkoutput,   *)
(* the reply: opcode 2, sender (interface address, interface hardware      *)
(* address), target (sender_ip, sender_mac), Ethernet destination          *)
(* sender_mac, ethertype 0x0806; and when it returns the cache holds a     *)
(* stable entry mapping sender_ip to sender_mac, provided the cache        *)
(* already held sender_ip or had an empty or stable slot.                  *)
C15_ReplyAndLearn ==
  [][(/\ IsArpInputOf(call') /\ call'.pkt.opcode = ARP_REQUEST
      /\ netif.ip_addr # IP_ANY /\ call'.pkt.dip = netif.ip_addr
      /\ call'.pkt.sip # IP_ANY)
     => LET pkt == call'.pkt
            arps == SelectSeq(call'.sent, IsArpFrame)
        IN /\ Len(arps) = 1
           /\ arps[1].opcode = ARP_REPLY /\ arps[1].ethtype = ETHTYPE_ARP
           /\ arps[1].sip = netif.ip_addr /\ arps[1].shw = netif.hwaddr
           /\ arps[1].dip = pkt.sip /\ arps[1].dhw = pkt.shw
           /\ arps[1].ethdest = pkt.shw
           /\ (\E i \in Slots :
                 \/ HoldsIp(arp_table[i], pkt.sip)
                 \/ arp_table[i].state \in {ETHARP_STATE_EMPTY, ETHARP_STATE_STABLE})
              => \E i \in Slots :
                   /\ arp_table'[i].state = ETHARP_STATE_STABLE
                   /\ arp_table'[i].ipaddr = pkt.sip
                   /\ arp_table'[i].ethaddr = pkt.shw]_vars

\* a request for the interface's address has just been answered and its
\* sender inserted next to a pending entry for another address
C15_Witness ==
  /\ IsArpInputOf(call) /\ call.pkt.opcode = ARP_REQUEST
  /\ netif.ip_addr # IP_ANY /\ call.pkt.dip = netif.ip_addr
  /\ call.pkt.sip # IP_ANY
  /\ call.ev = "inserted" /\ Len(call.sent) = 1
  /\ \E r \in call.hit :
       /\ arp_table[r.i].state = ETHARP_STATE_STABLE
       /\ arp_table[r.i].ipaddr = call.pkt.sip
       /\ arp_table[r.i].ethaddr = call.pkt.shw
       /\ \E j \in Slots \ {r.i} : arp_table[j].state = ETHARP_STATE_PENDING

(* C16: an inbound ARP frame that is not for us (its target address is not *)
(* the interface's address, or the interface's address is 0.0.0.0) never   *)
(* creates or evicts a cache entry and never causes a reply: no ARP frame  *)
(* is sent, the non-empty slots and their addresses stay as they were, and *)
(* the only slot that may change is the existing entry for the sender's    *)
(* address, which becomes stable with the sender's hardware address, age   *)
(* 0 and an empty queue.                                                   *)
C16_SnoopOnly ==
  [][(/\ IsArpInputOf(call')
      /\ (netif.ip_addr = IP_ANY \/ call'.pkt.dip # netif.ip_addr))
     => /\ \A k \in 1..Len(call'.sent) : ~IsArpFrame(call'.sent[k])
        /\ \A i \in Slots :
             /\ (arp_table'[i].state = ETHARP_STATE_EMPTY)
                 = (arp_table[i].state = ETHARP_STATE_EMPTY)
             /\ arp_table'[i].ipaddr = arp_table[i].ipaddr
             /\ arp_table'[i] # arp_table[i]
                => /\ HoldsIp(arp_table[i], call'.pkt.sip)
                   /\ arp_table'[i] =
                        [arp_table[i] EXCEPT !.state = ETHARP_STATE_STABLE,
                                             !.ethaddr = call'.pkt.shw,
                                             !.ctime = 0, !.p = <<>>]]_vars

\* on an interface without an address, a request for 0.0.0.0 has just made
\* the sender's pending entry stable, next to an empty slot, unanswered
C16_Witness ==
  /\ IsArpInputOf(call) /\ call.pkt.opcode = ARP_REQUEST
  /\ netif.ip_addr = IP_ANY /\ call.pkt.dip = IP_ANY
  /\ call.ev = "updated" /\ call.sent = <<>>
  /\ \E r \in call.hit :
       /\ r.was = ETHARP_STATE_PENDING
       /\ arp_table[r.i].state = ETHARP_STATE_STABLE
       /\ \E j \in Slots \ {r.i} : arp_table[j].state = ETHARP_STATE_EMPTY

\* the packet is too short, carries a wrong hardware-address or
\* protocol-address length, or an opcode that is neither request nor reply
IsMalformed(pkt) ==
  \/ pkt.short
  \/ <<pkt.hwlen, pkt.protolen>> # WellFormedLens
  \/ pkt.opcode \notin {ARP_REQUEST, ARP_REPLY}

(* C17: a malformed inbound ARP frame (too short, wrong hardware-address   *)
(* or protocol-address length, unknown opcode) has its buffer released and *)
(* no ARP reply is sent for it, even when its opcode is request and its    *)
(* target address is the interface's address.                              *)
C17_MalformedDropped ==
  (call.op = "arp_input" /\ IsMalformed(call.pkt))
  => /\ call.freed = 1
     /\ \A k \in 1..Len(call.sent) : ~IsArpFrame(call.sent[k])

(* C18: every query call whose request buffer could be allocated passes    *)
(* exactly one ARP request to linkoutput, whatever the cache holds for the *)
(* target, and before anything else it sends: Ethernet destination         *)
(* broadcast, ethertype 0x0806, opcode 1, sender address the interface's   *)
(* address, target address the queried address; in particular the request  *)
(* of query(netif, interface address, no buffer) has sender = target =     *)
(* interface address.                                                      *)
C18_RequestFirst ==
  (call.op = "query" /\ call.env.allocOk)
  => /\ Len(SelectSeq(call.sent, IsArpFrame)) = 1
     /\ IsArpFrame(call.sent[1])
     /\ call.sent[1].ethdest = ethbroadcast
     /\ call.sent[1].ethtype = ETHTYPE_ARP
     /\ call.sent[1].opcode = ARP_REQUEST
     /\ call.sent[1].sip = netif.ip_addr
     /\ call.sent[1].dip = call.ipaddr

\* a query for the interface's own address without a buffer has just sent
\* its request, with a stable entry for a peer in the cache
C18_Witness ==
  /\ call.op = "query" /\ call.env.allocOk /\ call.q = NoBuf
  /\ netif.ip_addr # IP_ANY /\ call.ipaddr = netif.ip_addr
  /\ Len(call.sent) = 1
  /\ call.sent[1].sip = netif.ip_addr /\ call.sent[1].dip = netif.ip_addr
  /\ \E i \in Slots : arp_table[i].state = ETHARP_STATE_STABLE

C21_BroadcastMulticast ==
  [][LET d == call'.ipaddr
         bcast == ip_addr_isany(d) \/ ip_addr_isbroadcast(d, netif)
     IN (/\ call'.op = "output" /\ call'.env.hdrOk
         /\ (bcast \/ ip_addr_ismulticast(d)))
        => /\ arp_table' = arp_table
           /\ Len(call'.sent) = 1
           /\ call'.sent[1].kind = "ip"
           /\ call'.sent[1].ethtype = ETHTYPE_IP
           /\ call'.sent[1].buf = call'.q
           /\ call'.sent[1].ethdest =
                (IF bcast THEN <<255, 255, 255, 255, 255, 255>>
                 ELSE <<1, 0, 94, d[2] % 128, d[3], d[4]>>)
           /\ call'.result = call'.env.loPkt]_vars

\* output has just sent a datagram to a multicast group whose second octet
\* is above 127, with a pending and a stable entry in the cache
C21_Witness ==
  /\ call.op = "output" /\ call.env = EnvOk
  /\ ip_addr_ismulticast(call.ipaddr) /\ call.ipaddr[2] > 127
  /\ Len(call.sent) = 1 /\ call.sent[1].buf = call.q
  /\ call.sent[1].ethdest[4] = call.ipaddr[2] - 128
  /\ \E i, j \in Slots : /\ arp_table[i].state = ETHARP_STATE_PENDING
                          /\ arp_table[j].state = ETHARP_STATE_STABLE

\* the empty and the stable slots of the cache
EmptySlots == {i \in Slots : arp_table[i].state = ETHARP_STATE_EMPTY}
StableSlots == {i \in Slots : arp_table[i].state = ETHARP_STATE_STABLE}

(* C22: find_arp_entry, for every cache content: if some slot is empty it  *)
(* returns the lowest empty slot and changes nothing; otherwise if some    *)
(* slot is stable it returns a stable slot whose age is maximal among the  *)
(* stable slots, which it leaves empty with an empty queue, the other      *)
(* slots unchanged; otherwise (every slot pending) it returns ERR_MEM and  *)
(* leaves the cache unchanged.                                             *)
C22_FindSlot ==
  [][call'.op = "find_arp_entry"
     => LET r == call'.result
        IN IF EmptySlots # {}
             THEN /\ r \in EmptySlots /\ \A k \in EmptySlots : r <= k
                  /\ arp_table' = arp_table
           ELSE IF StableSlots # {}
             THEN /\ r \in StableSlots
                  /\ \A k \in StableSlots : arp_table[k].ctime <= arp_table[r].ctime
                  /\ arp_table'[r].state = ETHARP_STATE_EMPTY
                  /\ arp_table'[r].p = <<>>
                  /\ \A k \in Slots \ {r} : arp_table'[k] = arp_table[k]
           ELSE /\ r = ERR_MEM
                /\ arp_table' = arp_table]_vars

\* find_arp_entry has just recycled a stable slot that was older than
\* another stable slot
C22_Witness ==
  /\ call.op = "find_arp_entry" /\ call.result \in Slots
  /\ arp_table[call.result].state = ETHARP_STATE_EMPTY
  /\ \A k \in Slots \ {call.result} : arp_table[k].state # ETHARP_STATE_EMPTY
  /\ \E k \in Slots :
       /\ arp_table[k].state = ETHARP_STATE_STABLE
       /\ arp_table[k].ctime < arp_table[call.result].ctime

(* C23: when the cache has no empty slot and several stable slots share    *)
(* the greatest age, find_arp_entry recycles the first of them, the one    *)
(* with the lowest index.                                                  *)
C23_TieLowestIndex ==
  [][LET oldest == {i \in StableSlots :
                      \A k \in StableSlots : arp_table[k].ctime <= arp_table[i].ctime}
     IN (/\ call'.op = "find_arp_entry"
         /\ EmptySlots = {}
         /\ Cardinality(oldest) > 1)
        => /\ call'.result \in oldest
           /\ \A k \in oldest : call'.result <= k]_vars

(* C24: the age counter saturates at 255: no call of the timer makes a     *)
(* slot's age smaller, and no other public call makes a slot's age         *)
(* smaller except by resetting it to 0 when it creates or updates the      *)
(* entry, so that no age ever wraps around.                                *)
C24_AgeSaturates ==
  [][\A i \in Slots :
       \/ arp_table'[i].ctime >= arp_table[i].ctime
       \/ /\ call'.op # "tmr"
          /\ arp_table'[i].ctime = 0
          /\ \E r \in call'.hit : r.i = i]_vars

(* C25: etharp_arp_input learns before it responds: when an ARP request    *)
(* for the interface's address arrives from a sender whose entry is        *)
(* pending and was given a datagram by the preceding output or query call, *)
(* the entry is stable when the call returns, the datagram has been passed *)
(* to linkoutput, addressed to the sender's hardware address, before the   *)
(* ARP reply, and the reply is addressed to the sender (address and        *)
(* hardware address) of the request.                                       *)
C25_LearnBeforeReply ==
  [][\A i \in Slots :
       (/\ IsSendCall(call) /\ call.q # NoBuf /\ call.env = EnvOk
        /\ call.ev \in {"created", "pending"}
        /\ \E r \in call.hit : r.i = i
        /\ arp_table[i].state = ETHARP_STATE_PENDING
        /\ IsArpInputOf(call') /\ call'.pkt.opcode = ARP_REQUEST
        /\ netif.ip_addr # IP_ANY /\ call'.pkt.dip = netif.ip_addr
        /\ call'.pkt.sip # IP_ANY /\ call'.pkt.sip = arp_table[i].ipaddr)
       => /\ arp_table'[i].state = ETHARP_STATE_STABLE
          /\ arp_table'[i].ethaddr = call'.pkt.shw
          /\ Len(call'.sent) = 2
          /\ IsDatagramTo(call'.sent[1], call.q, call'.pkt.shw)
          /\ IsArpFrame(call'.sent[2])
          /\ call'.sent[2].opcode = ARP_REPLY
          /\ call'.sent[2].dip = call'.pkt.sip
          /\ call'.sent[2].dhw = call'.pkt.shw
          /\ call'.sent[2].ethdest = call'.pkt.shw]_vars

====
